---- MODULE Spec2Model ----
(***************************************************************************)
(* Verification model of the Couchbase Lite JS documentation snippets.    *)
(*                                                                         *)
(* The snippets are straight-line callers of the SDK; the parts that own  *)
(* logic are modelled here:                                                *)
(*   - the pull conflict resolver of the conflict-resolver snippet,       *)
(*   - the push / pull replication filters,                               *)
(*   - the blob-fetch snippet (fetch, arrayBuffer, NewBlob),              *)
(*   - the block-scoped snippets that share the file-level `database`     *)
(*     handle of code_snippets.js.                                        *)
(* Each part has its own specification; the variables of the other parts  *)
(* stay at their idle values.                                              *)
(***************************************************************************)
EXTENDS Integers, Sequences, FiniteSets, TLC

VARIABLES
    \* conflict-resolver snippet
    local,          \* the resolver's `local` argument (a document or Absent)
    remote,         \* the resolver's `remote` argument (a document or Absent)
    documentID,     \* first argument of the three-argument (JS) resolver
    resolver,       \* which resolver ran: "none", "ts", "js"
    resolved,       \* the value the resolver's promise resolved to
    \* push-filter / pull-filter snippets
    doc,            \* the filter's `doc` argument
    flags,          \* the filter's `flags` argument: the set of flags set
    filter,         \* which filter ran: "none", "push-ts", "pull-ts", ...
    accepted,       \* the filter's return value
    \* blob-fetch snippet
    pc,             \* the statement the snippet is at
    response,       \* the Response that fetch resolved to
    data,           \* `data`: <<>> until assigned, then <<bytes>>
    buffer,         \* `buffer`: <<>> until assigned, then <<bytes>>
    blob,           \* `blob`: <<>> until assigned, then <<the NewBlob>>
    thrown,         \* the error the snippet threw, "" when none
    \* snippets sharing the file-level `database` of code_snippets.js
    database,       \* the handle opened at line 2526: "open" or "closed"
    myapp,          \* whether the database 'myapp' exists in storage
    tasks,          \* IDs of the documents stored in the tasks collection
    updatedDb,      \* add-collection's handle: "none" or "open"
    next,           \* position in Snippets of the next snippet of the file
    outcome,        \* per snippet: "notrun", "throws" or what it logged
    aborted,        \* an await rejected: module evaluation has ended
    \* index-migration / modify-indexes / add-collection
    mRoutine,       \* which of the three runs: "none" when idle
    mPc,            \* the statement the routine is at
    currentDb,      \* the first handle (currentDb, or the file's `database`)
    migratedDb,     \* the second handle (migratedDb / updatedDb)
    storedVersion,  \* version of 'myapp' in storage, 0 when it does not exist
    storedSchema,   \* the collections and indexes 'myapp' has in storage
    logged,         \* the config.version values written to the console
    \* async-query-callback snippet
    rows,           \* number of rows the query's result has
    delivered,      \* number of rows execute has passed to the callback
    asyncTasks,     \* `asyncTasks`: the promises pushed, in push order
    taskState,      \* per promise: "none", "pending", "fulfilled", "rejected"
    aPc,            \* the statement the snippet is at
    \* live-query-errors snippet
    lPc,            \* the statement the snippet is at
    listeners,      \* the listeners registered on `query`
    pending,        \* listeners still to be called for the current change
    changes,        \* number of changes of the result set so far
    uiLog,          \* per call of the first listener: "updated" or "caught"
    escaped,        \* listeners that let an exception reach their caller
    setupErrors     \* 'Failed to create live query listener' logs

resolverVars == <<local, remote, documentID, resolver, resolved>>

filterVars == <<doc, flags, filter, accepted>>

blobVars == <<pc, response, data, buffer, blob, thrown>>

dbVars == <<database, myapp, tasks, updatedDb, next, outcome, aborted>>

migrateVars ==
    <<mRoutine, mPc, currentDb, migratedDb, storedVersion, storedSchema,
      logged>>

asyncVars == <<rows, delivered, asyncTasks, taskState, aPc>>

liveVars ==
    <<lPc, listeners, pending, changes, uiLog, escaped, setupErrors>>

vars == <<resolverVars, filterVars, blobVars, dbVars, migrateVars,
         asyncVars,
         liveVars>>

----------------------------------------------------------------------------
(* Values shared by the parts *)

\* a property that the document does not have (reads as undefined); a
\* property that is set holds a one-element tuple <<value>>
Missing == <<>>

\* null / undefined in place of a document: the deleted side of a conflict
Absent == [ref |-> "absent", updatedAt |-> Missing]

----------------------------------------------------------------------------
(* The state of a part that is not running *)

\* no conflict is being resolved
ResolverIdle ==
    /\ local = Absent
    /\ remote = Absent
    /\ documentID = "none"
    /\ resolver = "none"
    /\ resolved = Absent

\* a Response before fetch has resolved
NoResponse ==
    [status |-> 0, ok |-> FALSE, body |-> <<>>, hasBody |-> FALSE,
     bodyUsed |-> FALSE]

\* blob-fetch is not running
BlobIdle ==
    /\ pc = "idle"
    /\ response = NoResponse
    /\ data = <<>>
    /\ buffer = <<>>
    /\ blob = <<>>
    /\ thrown = ""

\* The snippets of code_snippets.js 2563-2799 that use the file-level
\* `database`, in file order.
Snippets ==
    <<"close-database", "reopen-database", "delete-database",
      "database-maintenance", "add-collection", "create-document",
      "create-document-with-id", "get-document", "update-document",
      "delete-document">>

SnippetNames == {Snippets[i] : i \in 1 .. Len(Snippets)}

\* the shared-handle section is not running
DbIdle ==
    /\ database = "open"
    /\ myapp = TRUE
    /\ tasks = {}
    /\ updatedDb = "none"
    /\ next = 0
    /\ outcome = [s \in SnippetNames |-> "notrun"]
    /\ aborted = FALSE

\* a handle variable that has not been assigned
NoHandle == [state |-> "none", version |-> 0]

\* no migration routine is running
MigrateIdle ==
    /\ mRoutine = "none"
    /\ mPc = "idle"
    /\ currentDb = NoHandle
    /\ migratedDb = NoHandle
    /\ storedVersion = 0
    /\ storedSchema = {}
    /\ logged = <<>>

\* most rows a query result has
MaxRows == 2

\* The promises the callback can start: one saveToCache(row) and one
\* updateUI(row) per row.
PromiseIds == (1 .. MaxRows) \X {"saveToCache", "updateUI"}

\* async-query-callback is not running
AsyncIdle ==
    /\ rows = 0
    /\ delivered = 0
    /\ asyncTasks = <<>>
    /\ taskState = [p \in PromiseIds |-> "none"]
    /\ aPc = "idle"

\* live-query-errors is not running
LiveIdle ==
    /\ lPc = "idle"
    /\ listeners = {}
    /\ pending = {}
    /\ changes = 0
    /\ uiLog = <<>>
    /\ escaped = {}
    /\ setupErrors = 0

\* no document is being filtered
FilterIdle ==
    /\ doc = [completed |-> "undefined", assignedTo |-> "undefined"]
    /\ flags = {}
    /\ filter = "none"
    /\ accepted = FALSE

----------------------------------------------------------------------------
(* conflict-resolver: src/unnamed/part_000 455-491,                       *)
(* replication_snippets.js 404-440                                         *)

\* largest updatedAt timestamp drawn for a document
MaxTime == 2

\* updatedAt of a stored document: not set, or a number (0 and negative
\* numbers included: `x || 0` treats 0 like a missing value)
UpdatedAtValues == {Missing} \cup {<<t>> : t \in -1 .. MaxTime}

DocIDs == {"task-001", "task-002"}

\* The two conflicting revisions are distinct objects: `ref` is the
\* object's identity, so that "returns local" and "returns remote" differ
\* even when both revisions carry the same properties.
LocalDocs == [ref : {"local"}, updatedAt : UpdatedAtValues]
RemoteDocs == [ref : {"remote"}, updatedAt : UpdatedAtValues]

\* JavaScript `x || 0` on a property that is undefined or a number
OrZero(x) == IF x = Missing THEN 0 ELSE x[1]

\* the resolver with the comparison relaxed to >= (a tie goes to remote)
conflictResolverTieRemote(l, r) ==
    IF l = Absent THEN r
    ELSE IF r = Absent THEN l
    ELSE IF OrZero(r.updatedAt) >= OrZero(l.updatedAt) THEN r ELSE l

\* The resolver body, shared by both snippets:
\*   if (!local) return remote;
\*   if (!remote) return local;
\*   const localTime = local.updatedAt || 0;
\*   const remoteTime = remote.updatedAt || 0;
\*   if (remoteTime > localTime) return remote; else return local;
conflictResolver(l, r) ==
    IF l = Absent THEN r
    ELSE IF r = Absent THEN l
    ELSE LET localTime == OrZero(l.updatedAt)
             remoteTime == OrZero(r.updatedAt)
         IN  IF remoteTime > localTime THEN r ELSE l

\* A conflict is handed to the resolver: any pair of revisions, either of
\* which may be a deletion.
InitResolver ==
    /\ local \in LocalDocs \cup {Absent}
    /\ remote \in RemoteDocs \cup {Absent}
    /\ documentID \in DocIDs
    /\ resolver = "none"
    /\ resolved = Absent

\* pull.conflictResolver: async (local, remote) => ...   (part_000)
ResolveTS ==
    /\ resolver = "none"
    /\ resolver' = "ts"
    /\ resolved' = conflictResolver(local, remote)
    /\ UNCHANGED <<local, remote, documentID>>
    /\ UNCHANGED <<filterVars, blobVars, dbVars, migrateVars, asyncVars,
                   liveVars>>

\* pull.conflictResolver: async (documentID, local, remote) => ...
\* (replication_snippets.js)
ResolveJS ==
    /\ resolver = "none"
    /\ resolver' = "js"
    /\ resolved' = conflictResolver(local, remote)
    /\ UNCHANGED <<local, remote, documentID>>
    /\ UNCHANGED <<filterVars, blobVars, dbVars, migrateVars, asyncVars,
                   liveVars>>

NextResolver ==
    \/ ResolveTS
    \/ ResolveJS

\* the initial states: this part starts, the other parts are idle
StartResolver == InitResolver /\ FilterIdle /\ BlobIdle /\ DbIdle
    /\ MigrateIdle
    /\ AsyncIdle
    /\ LiveIdle

SpecResolver == StartResolver /\ [][NextResolver]_vars

\* updatedAt as the claim reads it: a missing value counts as 0
TimeOf(d) == IF d.updatedAt = Missing THEN 0 ELSE d.updatedAt[1]

\* C8: the resolver returns remote when local is absent, local when local
\* is present and remote is absent, and with both present remote iff
\* remote.updatedAt > local.updatedAt (missing counts as 0; a tie goes to
\* local); the result is always one of the two arguments.
C8_ResolverChoice ==
    resolver # "none" =>
        /\ resolved \in {local, remote}
        /\ local = Absent => resolved = remote
        /\ (local # Absent /\ remote = Absent) => resolved = local
        /\ (local # Absent /\ remote # Absent) =>
              /\ (TimeOf(remote) > TimeOf(local)) => resolved = remote
              /\ (TimeOf(remote) <= TimeOf(local)) => resolved = local

\* C8 witness: a tie between two present revisions was resolved (to local)
C8_Witness ==
    /\ resolver # "none"
    /\ local # Absent
    /\ remote # Absent
    /\ TimeOf(local) = TimeOf(remote)
    /\ local.updatedAt # remote.updatedAt
    /\ resolved = local

----------------------------------------------------------------------------
(* push-filter / pull-filter: src/unnamed/part_000 133-183,               *)
(* replication_snippets.js 150-196                                         *)

\* The flags a replicated document can carry; `flags` is the set of those
\* that are set, DocumentFlags.deleted the value with only `deleted` set.
DocumentFlagNames == {"deleted", "accessRemoved"}
DocumentFlags_deleted == {"deleted"}

\* doc.completed as JavaScript values, written as their literals: the
\* boolean true, false, an unset property, and two truthy non-booleans
CompletedValues == {"true", "false", "undefined", "'true'", "1"}

currentUser == "currentUser@example.com"

AssignedToValues == {currentUser, "other@example.com", "undefined"}

FilterDocs == [completed : CompletedValues, assignedTo : AssignedToValues]

\* part_000 140-147:
\*   if (flags === DocumentFlags.deleted) return false;
\*   return doc.completed === true;
pushFilterTS(d, f) ==
    IF f = DocumentFlags_deleted THEN FALSE
    ELSE d.completed = "true"

\* part_000 168-175:
\*   if (flags === DocumentFlags.deleted) return false;
\*   return doc.assignedTo === 'currentUser@example.com';
pullFilterTS(d, f) ==
    IF f = DocumentFlags_deleted THEN FALSE
    ELSE d.assignedTo = currentUser

\* replication_snippets.js 157-165:
\*   if (flags.deleted) return false;
\*   return doc.completed === true;
pushFilterJS(d, f) ==
    IF "deleted" \in f THEN FALSE
    ELSE d.completed = "true"

\* replication_snippets.js 181-189:
\*   if (flags.deleted) return false;
\*   return doc.assignedTo === 'currentUser@example.com';
pullFilterJS(d, f) ==
    IF "deleted" \in f THEN FALSE
    ELSE d.assignedTo = currentUser

\* The replicator offers a document with its flags to the filter.
InitFilter ==
    /\ doc \in FilterDocs
    /\ flags \in SUBSET DocumentFlagNames
    /\ filter = "none"
    /\ accepted = FALSE

PushFilterTS ==
    /\ filter = "none"
    /\ filter' = "push-ts"
    /\ accepted' = pushFilterTS(doc, flags)
    /\ UNCHANGED <<doc, flags>>
    /\ UNCHANGED <<resolverVars, blobVars, dbVars, migrateVars, asyncVars,
                   liveVars>>

PullFilterTS ==
    /\ filter = "none"
    /\ filter' = "pull-ts"
    /\ accepted' = pullFilterTS(doc, flags)
    /\ UNCHANGED <<doc, flags>>
    /\ UNCHANGED <<resolverVars, blobVars, dbVars, migrateVars, asyncVars,
                   liveVars>>

PushFilterJS ==
    /\ filter = "none"
    /\ filter' = "push-js"
    /\ accepted' = pushFilterJS(doc, flags)
    /\ UNCHANGED <<doc, flags>>
    /\ UNCHANGED <<resolverVars, blobVars, dbVars, migrateVars, asyncVars,
                   liveVars>>

PullFilterJS ==
    /\ filter = "none"
    /\ filter' = "pull-js"
    /\ accepted' = pullFilterJS(doc, flags)
    /\ UNCHANGED <<doc, flags>>
    /\ UNCHANGED <<resolverVars, blobVars, dbVars, migrateVars, asyncVars,
                   liveVars>>

NextFilter ==
    \/ PushFilterTS
    \/ PullFilterTS
    \/ PushFilterJS
    \/ PullFilterJS

\* the initial states: this part starts, the other parts are idle
StartFilter == InitFilter /\ ResolverIdle /\ BlobIdle /\ DbIdle
    /\ MigrateIdle
    /\ AsyncIdle
    /\ LiveIdle

SpecFilter == StartFilter /\ [][NextFilter]_vars

\* C9: both filters reject every document whose flags include deleted,
\* whatever other flags are set; a document that is not deleted passes the
\* push filter iff doc.completed is exactly true and the pull filter iff
\* doc.assignedTo is the current user.
C9_FiltersRejectDeleted ==
    filter # "none" =>
        /\ "deleted" \in flags => ~accepted
        /\ ("deleted" \notin flags /\ filter \in {"push-ts", "push-js"}) =>
              (accepted <=> doc.completed = "true")
        /\ ("deleted" \notin flags /\ filter \in {"pull-ts", "pull-js"}) =>
              (accepted <=> doc.assignedTo = currentUser)

----------------------------------------------------------------------------
(* blob-fetch: code_snippets.js 4652-4667                                  *)

\* longest response body drawn
MaxBodyLen == 3

\* byte values drawn for a body
Bytes == {0, 1}

Bodies == UNION {[1 .. n -> Bytes] : n \in 0 .. MaxBodyLen}

\* Statuses the server answers with. response.ok is status in 200..299;
\* a 204 response has a null body, the others carry a body stream.
Statuses == {200, 204, 404, 500}
NullBodyStatuses == {204}

IsOk(status) == status >= 200 /\ status <= 299

Responses ==
    {[status |-> st, ok |-> IsOk(st), body |-> b,
      hasBody |-> st \notin NullBodyStatuses, bodyUsed |-> FALSE] :
        st \in Statuses \ NullBodyStatuses, b \in Bodies}
    \cup
    {[status |-> st, ok |-> IsOk(st), body |-> <<>>,
      hasBody |-> FALSE, bodyUsed |-> FALSE] : st \in NullBodyStatuses}

\* response.arrayBuffer(): rejects with a TypeError when the body stream
\* was already read; a null body reads as no bytes and is never used up.
CanReadBody(r) == ~(r.hasBody /\ r.bodyUsed)
AfterReadBody(r) == [r EXCEPT !.bodyUsed = r.hasBody]

\* `Failed to fetch image: ${response.status}`
FailedToFetch(status) == "Failed to fetch image: " \o ToString(status)

InitBlob ==
    /\ pc = "fetch"
    /\ response = NoResponse
    /\ data = <<>>
    /\ buffer = <<>>
    /\ blob = <<>>
    /\ thrown = ""

\* const response = await fetch(url);   (4655) -- the server answers
Fetch ==
    /\ pc = "fetch"
    /\ \E r \in Responses : response' = r
    /\ pc' = "check"
    /\ UNCHANGED <<data, buffer, blob, thrown>>
    /\ UNCHANGED <<resolverVars, filterVars, dbVars, migrateVars, asyncVars,
                   liveVars>>

\* await fetch(url) rejects: no connection
FetchReject ==
    /\ pc = "fetch"
    /\ thrown' = "TypeError"
    /\ pc' = "thrown"
    /\ UNCHANGED <<response, data, buffer, blob>>
    /\ UNCHANGED <<resolverVars, filterVars, dbVars, migrateVars, asyncVars,
                   liveVars>>

\* if (!response.ok) throw new Error(...);   (4656-4658)
CheckOk ==
    /\ pc = "check"
    /\ IF ~response.ok
       THEN /\ thrown' = FailedToFetch(response.status)
            /\ pc' = "thrown"
       ELSE /\ pc' = "data"
            /\ UNCHANGED thrown
    /\ UNCHANGED <<response, data, buffer, blob>>
    /\ UNCHANGED <<resolverVars, filterVars, dbVars, migrateVars, asyncVars,
                   liveVars>>

\* const data = await response.arrayBuffer();   (4661)
ReadData ==
    /\ pc = "data"
    /\ IF CanReadBody(response)
       THEN /\ data' = <<response.body>>
            /\ response' = AfterReadBody(response)
            /\ pc' = "buffer"
            /\ UNCHANGED thrown
       ELSE /\ thrown' = "TypeError"
            /\ pc' = "thrown"
            /\ UNCHANGED <<data, response>>
    /\ UNCHANGED <<buffer, blob>>
    /\ UNCHANGED <<resolverVars, filterVars, dbVars, migrateVars, asyncVars,
                   liveVars>>

\* const buffer = new Uint8Array(await response.arrayBuffer());   (4664)
ReadBuffer ==
    /\ pc = "buffer"
    /\ IF CanReadBody(response)
       THEN /\ buffer' = <<response.body>>
            /\ response' = AfterReadBody(response)
            /\ pc' = "blob"
            /\ UNCHANGED thrown
       ELSE /\ thrown' = "TypeError"
            /\ pc' = "thrown"
            /\ UNCHANGED <<buffer, response>>
    /\ UNCHANGED <<data, blob>>
    /\ UNCHANGED <<resolverVars, filterVars, dbVars, migrateVars, asyncVars,
                   liveVars>>

\* const blob = new NewBlob(buffer, 'image/jpeg');   (4665)
CreateBlob ==
    /\ pc = "blob"
    /\ blob' = <<[content |-> buffer[1], contentType |-> "image/jpeg"]>>
    /\ pc' = "done"
    /\ UNCHANGED <<response, data, buffer, thrown>>
    /\ UNCHANGED <<resolverVars, filterVars, dbVars, migrateVars, asyncVars,
                   liveVars>>

NextBlob ==
    \/ Fetch
    \/ FetchReject
    \/ CheckOk
    \/ ReadData
    \/ ReadBuffer
    \/ CreateBlob

\* the initial states: this part starts, the other parts are idle
StartBlob == InitBlob /\ ResolverIdle /\ FilterIdle /\ DbIdle
    /\ MigrateIdle
    /\ AsyncIdle
    /\ LiveIdle

SpecBlob == StartBlob /\ [][NextBlob]_vars

\* C10: when the snippet has ended after fetch answered, an ok response
\* left a NewBlob holding the downloaded bytes, and a response that is not
\* ok left the error 'Failed to fetch image: <status>' and no blob.
C10_BlobFetchOutcome ==
    (pc \in {"done", "thrown"} /\ response # NoResponse) =>
        /\ response.ok =>
              /\ thrown = ""
              /\ blob = <<[content |-> response.body,
                           contentType |-> "image/jpeg"]>>
        /\ ~response.ok =>
              /\ thrown = FailedToFetch(response.status)
              /\ blob = <<>>

----------------------------------------------------------------------------
(* Snippets sharing `const database = await Database.open(defaultConfig)` *)
(* (code_snippets.js 2526): 2563-2609 and 2698-2799                        *)

Others ==
    <<resolverVars, filterVars, blobVars, migrateVars, asyncVars,
      liveVars>>

\* the snippet at position `next` is s and the module is still running
At(s) == ~aborted /\ next <= Len(Snippets) /\ Snippets[next] = s

\* the snippet ran to its end tag and logged `what`
Completed(s, what) ==
    /\ outcome' = [outcome EXCEPT ![s] = what]
    /\ next' = next + 1
    /\ UNCHANGED aborted

\* an awaited SDK call of the snippet rejected: top-level await rethrows
\* and nothing after it runs
Throws(s) ==
    /\ outcome' = [outcome EXCEPT ![s] = "throws"]
    /\ aborted' = TRUE
    /\ UNCHANGED <<database, myapp, tasks, updatedDb, next>>

\* What the snippet does when it starts with the handle in state db and the
\* tasks collection holding the documents ts: "throws" when one of its SDK
\* calls is made on a closed database, else the line it logs.
Result(s, db, ts) ==
    CASE s = "close-database" -> "Database closed"
      [] s = "reopen-database" -> "Database reopened"
      [] s = "delete-database" -> "Database deleted"
      [] s = "add-collection" -> "ok"
      [] s = "database-maintenance" ->
            IF db = "open" THEN "Database compacted" ELSE "throws"
      [] s \in {"create-document", "create-document-with-id"} ->
            IF db = "open" THEN "ok" ELSE "throws"
      [] s = "get-document" ->
            IF db # "open" THEN "throws"
            ELSE IF "task-001" \in ts THEN "Task" ELSE "Document not found"
      [] s = "update-document" ->
            IF db # "open" THEN "throws"
            ELSE IF "task-001" \in ts THEN "Document updated" ELSE "ok"
      [] s = "delete-document" ->
            IF db # "open" THEN "throws"
            ELSE IF "task-001" \in ts THEN "Document deleted" ELSE "ok"

\* the file after line 2526: the handle is open on a database without
\* documents
InitDb ==
    /\ database = "open"
    /\ myapp = TRUE
    /\ tasks = {}
    /\ updatedDb = "none"
    /\ next = 1
    /\ outcome = [s \in SnippetNames |-> "notrun"]
    /\ aborted = FALSE

\* database.close();   (2566)
CloseDatabase ==
    /\ At("close-database")
    /\ database' = "closed"
    /\ Completed("close-database", Result("close-database", database, tasks))
    /\ UNCHANGED <<myapp, tasks, updatedDb>>
    /\ UNCHANGED Others

\* await database.reopen();   (2574)
ReopenDatabase ==
    /\ At("reopen-database")
    /\ database' = "open"
    /\ Completed("reopen-database",
                 Result("reopen-database", database, tasks))
    /\ UNCHANGED <<myapp, tasks, updatedDb>>
    /\ UNCHANGED Others

\* database.close(); await Database.delete('myapp');   (2582-2583)
DeleteDatabase ==
    /\ At("delete-database")
    /\ database' = "closed"
    /\ myapp' = FALSE
    /\ tasks' = {}
    /\ Completed("delete-database",
                 Result("delete-database", database, tasks))
    /\ UNCHANGED updatedDb
    /\ UNCHANGED Others

\* await database.performMaintenance('compact');   (2606)
DatabaseMaintenance ==
    /\ At("database-maintenance")
    /\ IF Result("database-maintenance", database, tasks) = "throws"
       THEN Throws("database-maintenance")
       ELSE /\ Completed("database-maintenance",
                         Result("database-maintenance", database, tasks))
            /\ UNCHANGED <<database, myapp, tasks, updatedDb>>
    /\ UNCHANGED Others

\* database.close(); const updatedDb = await Database.open(updatedConfig);
\* (2712-2724)
AddCollection ==
    /\ At("add-collection")
    /\ database' = "closed"
    /\ myapp' = TRUE
    /\ updatedDb' = "open"
    /\ Completed("add-collection", Result("add-collection", database, tasks))
    /\ UNCHANGED tasks
    /\ UNCHANGED Others

\* const task = tasks.createDocument(null, {...}); await tasks.save(task);
\* (2733-2740)
CreateDocument ==
    /\ At("create-document")
    /\ IF Result("create-document", database, tasks) = "throws"
       THEN Throws("create-document")
       ELSE /\ tasks' = tasks \cup {"auto-id"}
            /\ Completed("create-document",
                         Result("create-document", database, tasks))
            /\ UNCHANGED <<database, myapp, updatedDb>>
    /\ UNCHANGED Others

\* const taskWithId = tasks.createDocument(DocID('task-001'), {...});
\* await tasks.save(taskWithId);   (2748-2756)
CreateDocumentWithId ==
    /\ At("create-document-with-id")
    /\ IF Result("create-document-with-id", database, tasks) = "throws"
       THEN Throws("create-document-with-id")
       ELSE /\ tasks' = tasks \cup {"task-001"}
            /\ Completed("create-document-with-id",
                         Result("create-document-with-id", database, tasks))
            /\ UNCHANGED <<database, myapp, updatedDb>>
    /\ UNCHANGED Others

\* const doc = await tasks.getDocument(docId);
\* if (doc) log('Task:') else log('Document not found');   (2764-2770)
GetDocument ==
    /\ At("get-document")
    /\ IF Result("get-document", database, tasks) = "throws"
       THEN Throws("get-document")
       ELSE /\ Completed("get-document",
                         Result("get-document", database, tasks))
            /\ UNCHANGED <<database, myapp, tasks, updatedDb>>
    /\ UNCHANGED Others

\* const docToUpdate = await tasks.getDocument(docId);
\* if (docToUpdate) { ...; await tasks.save(docToUpdate); }   (2778-2784)
UpdateDocument ==
    /\ At("update-document")
    /\ IF Result("update-document", database, tasks) = "throws"
       THEN Throws("update-document")
       ELSE /\ Completed("update-document",
                         Result("update-document", database, tasks))
            /\ UNCHANGED <<database, myapp, tasks, updatedDb>>
    /\ UNCHANGED Others

\* const deleteDoc = await tasks.getDocument(docId);
\* if (deleteDoc) { await tasks.delete(deleteDoc); }   (2792-2797)
DeleteDocument ==
    /\ At("delete-document")
    /\ IF Result("delete-document", database, tasks) = "throws"
       THEN Throws("delete-document")
       ELSE /\ tasks' = tasks \ {"task-001"}
            /\ Completed("delete-document",
                         Result("delete-document", database, tasks))
            /\ UNCHANGED <<database, myapp, updatedDb>>
    /\ UNCHANGED Others

\* The snippet at `next` is left out of the run: a reader copies the
\* tagged snippets they need, each is documented on its own.
LeaveOut ==
    /\ ~aborted
    /\ next <= Len(Snippets)
    /\ next' = next + 1
    /\ UNCHANGED <<database, myapp, tasks, updatedDb, outcome, aborted>>
    /\ UNCHANGED Others

NextDb ==
    \/ CloseDatabase
    \/ ReopenDatabase
    \/ DeleteDatabase
    \/ DatabaseMaintenance
    \/ AddCollection
    \/ CreateDocument
    \/ CreateDocumentWithId
    \/ GetDocument
    \/ UpdateDocument
    \/ DeleteDocument
    \/ LeaveOut

\* the initial states: this part starts, the other parts are idle
StartDb == InitDb /\ ResolverIdle /\ FilterIdle /\ BlobIdle
    /\ MigrateIdle
    /\ AsyncIdle
    /\ LiveIdle

SpecDb == StartDb /\ [][NextDb]_vars

\* what the snippet does when it is the only one that runs
Alone(s) == Result(s, "open", {})

\* C1: every snippet that ran did what it does when run alone, whichever
\* of the snippets before it ran first.
C1_SnippetsIndependent ==
    \A s \in SnippetNames :
        outcome[s] # "notrun" => outcome[s] = Alone(s)

----------------------------------------------------------------------------
(* index-migration (migrateIndexes): code_snippets.js 3644-3686;           *)
(* modify-indexes: 3336-3359; add-collection: 2710-2726                    *)

\* highest version 'myapp' may already have in storage when a routine starts
MaxStoredVersion == 3

\* the version each routine opens first and the one it reopens with
firstVersion == 1
newVersion == 2

Routines == {"index-migration", "modify-indexes", "add-collection"}

\* handle.close() left out: the handle stays as it is
closeHandleSkipped(h) == h

\* handle.close()
closeHandle(h) == [h EXCEPT !.state = "closed"]

\* the handle Database.open({..., version: v}) resolves to
openHandle(v) == [state |-> "open", version |-> v]

\* what storage holds after Database.open with version v resolved
versionAfterOpen(stored, v) == IF stored < v THEN v ELSE stored

\* the collections / indexes of the config each routine's first handle was
\* opened with (defaultConfig for the file's `database`)
firstSchema(r) ==
    IF r = "index-migration" THEN {"products.name"} ELSE {"tasks", "users"}

\* the collections / indexes of the config each routine reopens with
newSchema(r) ==
    CASE r = "index-migration" ->
            {"products.name", "products.price", "products.category"}
      [] r = "modify-indexes" ->
            {"products.name", "products.price", "products.category",
             "products.manufacturer"}
      [] r = "add-collection" -> {"tasks", "users", "projects"}

\* an open with a higher version than the stored one installs the schema
\* of its config ('Reopen with new indexes and incremented version')
schemaAfterOpen(stored, schema, v, config) ==
    IF stored < v THEN config ELSE schema

\* migrateIndexes starts by opening its own handle; the two block snippets
\* start from the file's `database` (defaultConfig, version 1), which an
\* earlier block may have closed already.
InitMigrate ==
    /\ mRoutine \in Routines
    /\ storedVersion \in 0 .. MaxStoredVersion
    /\ storedSchema \in IF storedVersion = 0 THEN {{}}
                       ELSE {firstSchema(mRoutine), newSchema(mRoutine)}
    /\ IF mRoutine = "index-migration"
       THEN /\ mPc = "open1"
            /\ currentDb = NoHandle
       ELSE /\ mPc = "close"
            /\ currentDb \in {openHandle(firstVersion),
                              closeHandle(openHandle(firstVersion))}
    /\ migratedDb = NoHandle
    /\ logged = <<>>

NotMigrate ==
    <<resolverVars, filterVars, blobVars, dbVars, asyncVars,
      liveVars>>

\* const currentDb = await Database.open({name: 'myapp', version: 1, ...});
\* (3649-3657)
OpenCurrent ==
    /\ mPc = "open1"
    /\ currentDb' = openHandle(firstVersion)
    /\ storedVersion' = versionAfterOpen(storedVersion, firstVersion)
    /\ storedSchema' = schemaAfterOpen(storedVersion, storedSchema,
                                       firstVersion, firstSchema(mRoutine))
    /\ mPc' = "log1"
    /\ UNCHANGED <<mRoutine, migratedDb, logged>>
    /\ UNCHANGED NotMigrate

\* an awaited Database.open rejects: the routine ends with that error and
\* assigns nothing
OpenRejects ==
    /\ mPc \in {"open1", "open2"}
    /\ mPc' = "rejected"
    /\ UNCHANGED <<mRoutine, currentDb, migratedDb, storedVersion,
                   storedSchema, logged>>
    /\ UNCHANGED NotMigrate

\* console.log('Current version:', currentDb.config.version);   (3659)
LogCurrent ==
    /\ mPc = "log1"
    /\ logged' = Append(logged, currentDb.version)
    /\ mPc' = "close"
    /\ UNCHANGED <<mRoutine, currentDb, migratedDb, storedVersion,
                   storedSchema>>
    /\ UNCHANGED NotMigrate

\* currentDb.close();   (3662)      database.close();   (2712, 3339)
CloseCurrent ==
    /\ mPc = "close"
    /\ currentDb' = closeHandle(currentDb)
    /\ mPc' = "open2"
    /\ UNCHANGED <<mRoutine, migratedDb, storedVersion, storedSchema, logged>>
    /\ UNCHANGED NotMigrate

\* const migratedDb = await Database.open({name: 'myapp', version: 2, ...});
\* (3665-3677)      const updatedDb = await Database.open(updatedConfig);
\* (2724, 3357)
OpenMigrated ==
    /\ mPc = "open2"
    /\ migratedDb' = openHandle(newVersion)
    /\ storedVersion' = versionAfterOpen(storedVersion, newVersion)
    /\ storedSchema' = schemaAfterOpen(storedVersion, storedSchema,
                                       newVersion, newSchema(mRoutine))
    /\ mPc' = IF mRoutine = "index-migration" THEN "log2" ELSE "done"
    /\ UNCHANGED <<mRoutine, currentDb, logged>>
    /\ UNCHANGED NotMigrate

\* console.log('Migrated to version:', migratedDb.config.version);   (3679)
LogMigrated ==
    /\ mPc = "log2"
    /\ logged' = Append(logged, migratedDb.version)
    /\ mPc' = "return"
    /\ UNCHANGED <<mRoutine, currentDb, migratedDb, storedVersion,
                   storedSchema>>
    /\ UNCHANGED NotMigrate

\* return migratedDb;   (3681)
ReturnMigrated ==
    /\ mPc = "return"
    /\ mPc' = "returned"
    /\ UNCHANGED <<mRoutine, currentDb, migratedDb, storedVersion,
                   storedSchema, logged>>
    /\ UNCHANGED NotMigrate

NextMigrate ==
    \/ OpenCurrent
    \/ OpenRejects
    \/ LogCurrent
    \/ CloseCurrent
    \/ OpenMigrated
    \/ LogMigrated
    \/ ReturnMigrated

\* the initial states: this part starts, the other parts are idle
StartMigrate ==
    InitMigrate /\ ResolverIdle /\ FilterIdle /\ BlobIdle /\ DbIdle
    /\ AsyncIdle
    /\ LiveIdle

SpecMigrate == StartMigrate /\ [][NextMigrate]_vars

\* C11: the first handle is closed before Database.open is called with the
\* new version, the two handles are never open at the same time, and the
\* handle migrateIndexes returns has config.version 2, strictly greater
\* than the first handle's 1.
C11_CloseThenReopen ==
    /\ mPc = "open2" => currentDb.state = "closed"
    /\ ~(currentDb.state = "open" /\ migratedDb.state = "open")
    /\ mPc = "returned" =>
          /\ migratedDb.state = "open"
          /\ migratedDb.version = 2
          /\ currentDb.version = 1
          /\ migratedDb.version > currentDb.version
          /\ logged = <<1, 2>>

\* C11 witness: migrateIndexes returned its second handle
C11_Witness ==
    /\ mRoutine = "index-migration"
    /\ mPc = "returned"
    /\ currentDb.state = "closed"
    /\ migratedDb.state = "open"

----------------------------------------------------------------------------
(* async-query-callback: code_snippets.js 4437-4453                        *)

\* Promise.all of an array taken before anything was pushed to it
allFulfilledOfNone(ts, st) == \A i \in {} : st[ts[i]] = "fulfilled"

\* Promise.all(asyncTasks) fulfils when every promise of the array has
\* fulfilled
allFulfilled(ts, st) == \A i \in 1 .. Len(ts) : st[ts[i]] = "fulfilled"

\* Promise.all(asyncTasks) rejects when a promise of the array rejected
someRejected(ts, st) == \E i \in 1 .. Len(ts) : st[ts[i]] = "rejected"

\* let asyncTasks = []; await query.execute(...) has been called on a
\* query whose result has `rows` rows   (4443-4444)
InitAsync ==
    /\ rows \in 0 .. MaxRows
    /\ delivered = 0
    /\ asyncTasks = <<>>
    /\ taskState = [p \in PromiseIds |-> "none"]
    /\ aPc = "execute"

NotAsync ==
    <<resolverVars, filterVars, blobVars, dbVars, migrateVars,
      liveVars>>

\* execute passes the next row to the callback, which runs to its end:
\*   asyncTasks.push(saveToCache(row)); asyncTasks.push(updateUI(row));
\* (4444-4447)
DeliverRow ==
    /\ aPc = "execute"
    /\ delivered < rows
    /\ delivered' = delivered + 1
    /\ asyncTasks' = asyncTasks \o <<<<delivered + 1, "saveToCache">>,
                                     <<delivered + 1, "updateUI">>>>
    /\ taskState' = [taskState EXCEPT
                        ![<<delivered + 1, "saveToCache">>] = "pending",
                        ![<<delivered + 1, "updateUI">>] = "pending"]
    /\ UNCHANGED <<rows, aPc>>
    /\ UNCHANGED NotAsync

\* the work behind a saveToCache / updateUI promise ends: the promise
\* fulfils, at any time after it was started   (4603-4609)
FulfilTask ==
    /\ \E p \in PromiseIds :
          /\ taskState[p] = "pending"
          /\ taskState' = [taskState EXCEPT ![p] = "fulfilled"]
    /\ UNCHANGED <<rows, delivered, asyncTasks, aPc>>
    /\ UNCHANGED NotAsync

\* the work behind a promise fails: the promise rejects
RejectTask ==
    /\ \E p \in PromiseIds :
          /\ taskState[p] = "pending"
          /\ taskState' = [taskState EXCEPT ![p] = "rejected"]
    /\ UNCHANGED <<rows, delivered, asyncTasks, aPc>>
    /\ UNCHANGED NotAsync

\* execute has passed every row: its promise resolves and the snippet goes
\* on to `await Promise.all(asyncTasks)`   (4449)
ExecuteResolves ==
    /\ aPc = "execute"
    /\ delivered = rows
    /\ aPc' = "promiseAll"
    /\ UNCHANGED <<rows, delivered, asyncTasks, taskState>>
    /\ UNCHANGED NotAsync

\* the query fails: execute rejects and the await throws
ExecuteRejects ==
    /\ aPc = "execute"
    /\ aPc' = "executeRejected"
    /\ UNCHANGED <<rows, delivered, asyncTasks, taskState>>
    /\ UNCHANGED NotAsync

\* await Promise.all(asyncTasks) fulfils;
\* console.log('All results processed asynchronously');   (4449-4450)
LogProcessed ==
    /\ aPc = "promiseAll"
    /\ allFulfilled(asyncTasks, taskState)
    /\ aPc' = "logged"
    /\ UNCHANGED <<rows, delivered, asyncTasks, taskState>>
    /\ UNCHANGED NotAsync

\* await Promise.all(asyncTasks) rejects: the snippet throws   (4449)
PromiseAllRejects ==
    /\ aPc = "promiseAll"
    /\ someRejected(asyncTasks, taskState)
    /\ aPc' = "allRejected"
    /\ UNCHANGED <<rows, delivered, asyncTasks, taskState>>
    /\ UNCHANGED NotAsync

NextAsync ==
    \/ DeliverRow
    \/ FulfilTask
    \/ RejectTask
    \/ ExecuteResolves
    \/ ExecuteRejects
    \/ LogProcessed
    \/ PromiseAllRejects

\* the initial states: this part starts, the other parts are idle
StartAsync ==
    InitAsync /\ ResolverIdle /\ FilterIdle /\ BlobIdle /\ DbIdle
    /\ MigrateIdle
    /\ LiveIdle

SpecAsync == StartAsync /\ [][NextAsync]_vars

----------------------------------------------------------------------------
(* live-query-errors: queries.ts 116-137, code_snippets.js 5375-5396       *)

\* most changes of the result set in one run
MaxChanges == 3

\* the first listener without its try / catch
uiListenerNoCatch(updateUIThrows) ==
    IF updateUIThrows THEN "escaped" ELSE "updated"

\* The first listener (119-127):
\*   try { updateUI(results); }
\*   catch (error) { console.error('Error updating UI:', error); }
\* How a call of it ends, given whether updateUI throws.
uiListener(updateUIThrows) ==
    IF updateUIThrows THEN "caught" ELSE "updated"

\* The second listener (131-133): processResults(results);
\* nothing in it catches.
processListener(processResultsThrows) ==
    IF processResultsThrows THEN "escaped" ELSE "processed"

\* const query = database.createQuery('SELECT * FROM tasks');   (117)
InitLive ==
    /\ lPc = "addUi"
    /\ listeners = {}
    /\ pending = {}
    /\ changes = 0
    /\ uiLog = <<>>
    /\ escaped = {}
    /\ setupErrors = 0

NotLive ==
    <<resolverVars, filterVars, blobVars, dbVars, migrateVars, asyncVars>>

\* query.addChangeListener(results => { try ... catch ... });   (119-127)
\* The call is not inside a try: if it throws, the snippet throws.
AddUiListener ==
    /\ lPc = "addUi"
    /\ \E registers \in BOOLEAN :
          IF registers
          THEN /\ listeners' = listeners \cup {"ui"}
               /\ lPc' = "addProcess"
          ELSE /\ lPc' = "thrown"
               /\ UNCHANGED listeners
    /\ UNCHANGED <<pending, changes, uiLog, escaped, setupErrors>>
    /\ UNCHANGED NotLive

\* try { query.addChangeListener(results => { processResults(results); }); }
\* catch (error) { console.error('Failed to create ...', error); }  (130-136)
AddProcessListener ==
    /\ lPc = "addProcess"
    /\ \E registers \in BOOLEAN :
          IF registers
          THEN /\ listeners' = listeners \cup {"process"}
               /\ UNCHANGED setupErrors
          ELSE /\ setupErrors' = setupErrors + 1
               /\ UNCHANGED listeners
    /\ lPc' = "done"
    /\ UNCHANGED <<pending, changes, uiLog, escaped>>
    /\ UNCHANGED NotLive

\* The result set of the query changes: every registered listener is due a
\* call with the new results.
ResultsChange ==
    /\ lPc = "done"
    /\ pending = {}
    /\ changes < MaxChanges
    /\ changes' = changes + 1
    /\ pending' = listeners
    /\ UNCHANGED <<lPc, listeners, uiLog, escaped, setupErrors>>
    /\ UNCHANGED NotLive

\* the first listener is called; updateUI returns or throws   (119-127)
CallUiListener ==
    /\ "ui" \in pending
    /\ pending' = pending \ {"ui"}
    /\ \E updateUIThrows \in BOOLEAN :
          IF uiListener(updateUIThrows) = "escaped"
          THEN /\ escaped' = escaped \cup {"ui"}
               /\ UNCHANGED uiLog
          ELSE /\ uiLog' = Append(uiLog, uiListener(updateUIThrows))
               /\ UNCHANGED escaped
    /\ UNCHANGED <<lPc, listeners, changes, setupErrors>>
    /\ UNCHANGED NotLive

\* the second listener is called; processResults returns or throws
\* (131-133)
CallProcessListener ==
    /\ "process" \in pending
    /\ pending' = pending \ {"process"}
    /\ \E processResultsThrows \in BOOLEAN :
          IF processListener(processResultsThrows) = "escaped"
          THEN escaped' = escaped \cup {"process"}
          ELSE UNCHANGED escaped
    /\ UNCHANGED <<lPc, listeners, changes, uiLog, setupErrors>>
    /\ UNCHANGED NotLive

NextLive ==
    \/ AddUiListener
    \/ AddProcessListener
    \/ ResultsChange
    \/ CallUiListener
    \/ CallProcessListener

\* the initial states: this part starts, the other parts are idle
StartLive ==
    InitLive /\ ResolverIdle /\ FilterIdle /\ BlobIdle /\ DbIdle
    /\ MigrateIdle /\ AsyncIdle

SpecLive == StartLive /\ [][NextLive]_vars

\* C15: an exception thrown by updateUI never leaves the first listener;
\* the listener stays registered and has handled every change so far,
\* those after a caught exception included.
C15_ErrorStaysInListener ==
    /\ "ui" \notin escaped
    /\ lPc \in {"addProcess", "done"} => "ui" \in listeners
    /\ lPc = "done" =>
          Len(uiLog) + (IF "ui" \in pending THEN 1 ELSE 0) = changes

\* C15 witness: updateUI threw in one call of the first listener, and the
\* listener handled the next change normally
C15_Witness ==
    /\ Len(uiLog) >= 2
    /\ \E i \in 1 .. Len(uiLog) - 1 :
          /\ uiLog[i] = "caught"
          /\ uiLog[i + 1] = "updated"
    /\ "ui" \in listeners

====
